---- MODULE Spec2Model ----
(***************************************************************************)
(* Stage-2 training of the trajectory model (train_stage2.py).            *)
(*                                                                         *)
(* Three specifications share the variables of this module:               *)
(*   SpecLoss    calculate_loss on one batch of trajectories;             *)
(*   SpecLoader  get_torch_dataloader and one pass over its batches;      *)
(*   Spec        main: runs on one log directory, each run a loop of      *)
(*               train_epoch / eval_epoch / checkpointing.                *)
(* Tensors are modelled by their index structure: a sequence is a TLA+    *)
(* sequence whose element p+1 is the tensor's element p (python indices   *)
(* are 0-based), a mask is a sequence of rows of 0/1.                     *)
(***************************************************************************)
EXTENDS Integers, Sequences, FiniteSets, TLC

(* ---------------------------------------------------------------------- *)
(* Bounds of the model                                                     *)
(* ---------------------------------------------------------------------- *)
MaxLen == 7
MaxTraj == 2
MaxB == 4
KeyRange == 3
MaxForest == 2
MaxMaze == 2
MaxLoaderBatch == 3
MaxRuns == 2
MaxEpochs == 3
MaxTrainBatches == 2
MaxEvalBatches == 1
MaxEvalLoss == 2

(* ---------------------------------------------------------------------- *)
(* Program constants                                                       *)
(* ---------------------------------------------------------------------- *)
(* the context output has 2 tokens: the mask has total_length+2 columns *)
ContextLen == 2
(* the diagonal of torch.tril in calculate_loss *)
TrilDiagonal == 2
(* best_eval_loss starts at 1e10; losses are counted in units of 100 so that
   the threshold is a machine integer *)
InitBestEvalLoss == 100000000
(* the factor of optimizer.n_steps on a resume *)
StepsPerEpoch == 2496
(* a periodic checkpoint every 10th epoch *)
SavePeriod == 10

VARIABLES
    (* calculate_loss *)
    batch_data,          \* [n, length, target_seq_id]: the collated batch
    batch_size,          \* the batch_size argument of calculate_loss
    lpc,                 \* "idle" | "loop" | "done"
    i,                   \* number of trajectories processed so far
    loss,                \* the accumulated loss
    offset,              \* locals of the last iteration
    total_length,
    label,
    mask,
    target_value_index,
    scored,              \* the (row, position, key) triples gathered at line 45
    ret,                 \* the returned value, a fraction [num, den]
    (* get_torch_dataloader and one pass over the loader *)
    dataset,             \* [indexDictForest, indexDictMaze]
    loader_batch_size,   \* the batch_size argument of get_torch_dataloader
    dpc,                 \* "idle" | "call" | "ready" | "exhausted"
    data_index,          \* the shuffled index list
    batch_sampler_data,  \* the batches handed to DataLoader
    cursor,              \* number of batches the iteration has yielded
    visited,             \* the indices loaded so far in this pass, in order
    (* main *)
    pc,                  \* the control point of the process, "off" outside Spec
    run,                 \* number of runs of main started on the log directory
    num_epochs,          \* arguments of main
    continue_training,
    train_dataset,       \* number of batches of the train loader
    eval_dataset,        \* number of batches of the eval loader
    weights,             \* parameters of both models: the epoch index of every
                         \* optimizer step applied to them, in order
    mode,                \* train/eval mode of the two models
    grad,                \* the batches <<epoch, batch>> whose gradient is
                         \* accumulated in the parameters' .grad
    optimizer,           \* ScheduledOptim: [n_steps, lr_step, adam_steps]
    n,                   \* the epoch index of main's loop
    start_epoch,
    b,                   \* number of batches the running epoch has fetched
    batch_loss,          \* loss of the current batch
    loss_batch,          \* the batch <<epoch, batch>> that loss was computed on
    total_loss,
    train_loss,
    eval_loss,
    best_eval_loss,
    best_model_pkl,      \* the file best_model.pkl of the log directory
    model_pkl,           \* the files model_<n>.pkl of the log directory
    writer,              \* the scalars logged by this run, one entry per epoch
    best_file_loss,      \* history: evaluation loss of the state in best_model.pkl
    epoch_steps          \* history: optimizer steps since train_epoch was entered

lossVars == <<batch_data, batch_size, lpc, i, loss, offset, total_length, label,
              mask, target_value_index, scored, ret>>

loaderVars == <<dataset, loader_batch_size, dpc, data_index, batch_sampler_data,
                cursor, visited>>

mainVars == <<pc, run, num_epochs, continue_training, train_dataset, eval_dataset,
              weights, mode, grad, optimizer, n, start_epoch, b, batch_loss,
              loss_batch, total_loss, train_loss, eval_loss, best_eval_loss,
              best_model_pkl, model_pkl, writer, best_file_loss, epoch_steps>>

vars == <<lossVars, loaderVars, mainVars>>

(* ---------------------------------------------------------------------- *)
(* Helpers: python / torch primitives                                      *)
(* ---------------------------------------------------------------------- *)
Max(a, c) == IF a >= c THEN a ELSE c

Min(a, c) == IF a <= c THEN a ELSE c

(* python s[:stop:step] for stop >= 0, step >= 1 *)
Slice(s, stop, step) ==
    LET m == Min(stop, Len(s))
        cnt == (m + step - 1) \div step
    IN  [k \in 1..cnt |-> s[(k - 1) * step + 1]]

(* torch.tril(torch.ones(rows, cols), diagonal): entry (r, c), 0-based, is 1
   iff c - r <= diagonal *)
Tril(rows, cols, diagonal) ==
    [r \in 1..rows |-> [c \in 1..cols |-> IF (c - 1) - (r - 1) <= diagonal THEN 1 ELSE 0]]

RECURSIVE SumSeq(_)
SumSeq(s) == IF Len(s) = 0 THEN 0 ELSE s[1] + SumSeq(Tail(s))

(* ---------------------------------------------------------------------- *)
(* Values of main's state                                                  *)
(* ---------------------------------------------------------------------- *)
NoFile == [exists |-> FALSE]

(* model_i.train() / model_i.eval() on both models (lines 57-58, 80-81) *)
ModeOf(m) == [context_env_encoder |-> m, ar_model |-> m]

(* lines 164-169: a new ScheduledOptim around a new Adam *)
FreshOptimizer == [n_steps |-> 0, lr_step |-> 0, adam_steps |-> 0]

(* ---------------------------------------------------------------------- *)
(* calculate_loss                                                          *)
(* ---------------------------------------------------------------------- *)
(* line 32 *)
Offset(L, B) == Max(L \div B, 1)

TotalLength_uncapped(L, B) == L - 1

(* line 33 *)
TotalLength(L, B) == Min(B * Offset(L, B), L - 1)

MaskOf_diagonal1(tl, off) == Slice(Tril(tl, tl + ContextLen, 1), tl, off)

(* lines 38-39: the mask, every offset-th row of the lower-triangular matrix *)
MaskOf(tl, off) == Slice(Tril(tl, tl + ContextLen, TrilDiagonal), tl, off)

(* line 41 *)
TargetValueIndex(m) == [k \in 1..Len(m) |-> SumSeq(m[k]) - 1]

(* The autoregressive model is external: its negative log-softmax output for
   trajectory t, batch row k, position pos and key is an uninterpreted value,
   distinct for distinct arguments. *)
NLL(t, k, pos, key) == 1000 * t + 100 * k + 10 * pos + key + 1

(* line 45: the entries gathered from tmp_prob_output *)
Gather(rows, tvi, lab) ==
    [k \in 1..rows |-> [row |-> k - 1, pos |-> tvi[k], key |-> lab[k]]]

Average_undivided(total, cnt) == [num |-> total, den |-> 1]

(* line 46 *)
Average(total, cnt) == [num |-> total, den |-> cnt]

(* The collated batch: per-item true length, target ids padded with 0 to the
   common length. *)
PaddedTargets(lengths, seed) ==
    LET width == CHOOSE w \in 0..MaxLen :
                    /\ \A t \in 1..Len(lengths) : lengths[t] - 1 <= w
                    /\ \E t \in 1..Len(lengths) : lengths[t] - 1 = w
    IN  [t \in 1..Len(lengths) |->
            [j \in 1..width |->
                IF j <= lengths[t] - 1 THEN (seed + t + 2 * j) % KeyRange ELSE 0]]

(* lines 31-45: one iteration of the loop over the trajectories *)
LossIter ==
    /\ lpc = "loop"
    /\ i < batch_data.n
    /\ LET t == i + 1
           L == batch_data.length[t]
           off == Offset(L, batch_size)
           tl == TotalLength(L, batch_size)
           lab == Slice(batch_data.target_seq_id[t], tl, off)
           m == MaskOf(tl, off)
           tvi == TargetValueIndex(m)
           g == Gather(Len(lab), tvi, lab)
       IN  /\ offset' = off
           /\ total_length' = tl
           /\ label' = lab
           /\ mask' = m
           /\ target_value_index' = tvi
           /\ scored' = g
           /\ loss' = loss + SumSeq([k \in 1..Len(g) |-> NLL(i, g[k].row, g[k].pos, g[k].key)])
    /\ i' = i + 1
    /\ UNCHANGED <<batch_data, batch_size, lpc, ret>>
    /\ UNCHANGED <<loaderVars, mainVars>>

(* line 46 *)
LossReturn ==
    /\ lpc = "loop"
    /\ i = batch_data.n
    /\ ret' = Average(loss, batch_data.n)
    /\ lpc' = "done"
    /\ UNCHANGED <<batch_data, batch_size, i, loss, offset, total_length, label, mask,
                  target_value_index, scored>>
    /\ UNCHANGED <<loaderVars, mainVars>>

InitLoss ==
    /\ \E cnt \in 1..MaxTraj : \E lengths \in [1..cnt -> 1..MaxLen] : \E seed \in 0..KeyRange - 1 :
          batch_data = [n |-> cnt, length |-> lengths,
                        target_seq_id |-> PaddedTargets(lengths, seed)]
    /\ batch_size \in 1..MaxB
    /\ lpc = "loop"
    /\ i = 0 /\ loss = 0 /\ offset = 0 /\ total_length = 0
    /\ label = <<>> /\ mask = <<>> /\ target_value_index = <<>> /\ scored = <<>>
    /\ ret = [num |-> 0, den |-> 0]
    /\ dataset = [indexDictForest |-> <<>>, indexDictMaze |-> <<>>]
    /\ loader_batch_size = 0
    /\ dpc = "idle"
    /\ data_index = <<>> /\ batch_sampler_data = <<>>
    /\ cursor = 0 /\ visited = <<>>
    /\ pc = "off" /\ run = 0
    /\ num_epochs = 0 /\ continue_training = FALSE
    /\ train_dataset = 0 /\ eval_dataset = 0
    /\ weights = <<>> /\ mode = ModeOf("train") /\ grad = {}
    /\ optimizer = FreshOptimizer
    /\ n = 0 /\ start_epoch = 0 /\ b = 0
    /\ batch_loss = 0 /\ loss_batch = <<0, 0>> /\ total_loss = 0
    /\ train_loss = 0 /\ eval_loss = 0 /\ best_eval_loss = 0
    /\ best_model_pkl = NoFile /\ model_pkl = {} /\ writer = <<>>
    /\ best_file_loss = 0 /\ epoch_steps = 0

NextLoss == LossIter \/ LossReturn

SpecLoss == InitLoss /\ [][NextLoss]_vars

(* ---------------------------------------------------------------------- *)
(* get_torch_dataloader                                                    *)
(* ---------------------------------------------------------------------- *)
(* line 102: toolz.partition(cnt, seq) without pad zips cnt references to one
   iterator of seq: floor(len/cnt) tuples of exactly cnt elements, an
   incomplete last tuple is dropped *)
Partition(cnt, s) ==
    [k \in 1..(Len(s) \div cnt) |-> SubSeq(s, (k - 1) * cnt + 1, k * cnt)]

(* line 101: the outcomes of random.shuffle *)
Shuffles(s) ==
    {[k \in 1..Len(s) |-> s[p[k]]] :
        p \in {q \in [1..Len(s) -> 1..Len(s)] : \A a, c \in 1..Len(s) : q[a] = q[c] => a = c}}

(* an index list of the dataset: cnt entries of one environment type *)
IndexList(env, cnt) == [k \in 1..cnt |-> [env |-> env, id |-> k - 1]]

(* lines 100-104 *)
GetTorchDataloader ==
    /\ dpc = "call"
    /\ \E sh \in Shuffles(dataset.indexDictForest \o dataset.indexDictMaze) :
          /\ data_index' = sh
          /\ batch_sampler_data' = Partition(loader_batch_size, sh)
    /\ dpc' = "ready"
    /\ cursor' = 0
    /\ visited' = <<>>
    /\ UNCHANGED <<dataset, loader_batch_size>>
    /\ UNCHANGED <<lossVars, mainVars>>

(* iterating the DataLoader (lines 61, 84): the next batch of the batch
   sampler is loaded *)
LoaderYield ==
    /\ dpc = "ready"
    /\ cursor < Len(batch_sampler_data)
    /\ visited' = visited \o batch_sampler_data[cursor + 1]
    /\ cursor' = cursor + 1
    /\ UNCHANGED <<dataset, loader_batch_size, dpc, data_index, batch_sampler_data>>
    /\ UNCHANGED <<lossVars, mainVars>>

(* the batch sampler is exhausted: the pass over the loader ends *)
LoaderStop ==
    /\ dpc = "ready"
    /\ cursor = Len(batch_sampler_data)
    /\ dpc' = "exhausted"
    /\ UNCHANGED <<dataset, loader_batch_size, data_index, batch_sampler_data, cursor,
                  visited>>
    /\ UNCHANGED <<lossVars, mainVars>>

InitLoader ==
    /\ \E f \in 0..MaxForest : \E m \in 0..MaxMaze :
          dataset = [indexDictForest |-> IndexList("forest", f),
                     indexDictMaze |-> IndexList("maze", m)]
    /\ loader_batch_size \in 1..MaxLoaderBatch
    /\ dpc = "call"
    /\ data_index = <<>> /\ batch_sampler_data = <<>>
    /\ cursor = 0 /\ visited = <<>>
    /\ batch_data = [n |-> 0, length |-> <<>>, target_seq_id |-> <<>>]
    /\ batch_size = 0
    /\ lpc = "idle"
    /\ i = 0 /\ loss = 0 /\ offset = 0 /\ total_length = 0
    /\ label = <<>> /\ mask = <<>> /\ target_value_index = <<>> /\ scored = <<>>
    /\ ret = [num |-> 0, den |-> 0]
    /\ pc = "off" /\ run = 0
    /\ num_epochs = 0 /\ continue_training = FALSE
    /\ train_dataset = 0 /\ eval_dataset = 0
    /\ weights = <<>> /\ mode = ModeOf("train") /\ grad = {}
    /\ optimizer = FreshOptimizer
    /\ n = 0 /\ start_epoch = 0 /\ b = 0
    /\ batch_loss = 0 /\ loss_batch = <<0, 0>> /\ total_loss = 0
    /\ train_loss = 0 /\ eval_loss = 0 /\ best_eval_loss = 0
    /\ best_model_pkl = NoFile /\ model_pkl = {} /\ writer = <<>>
    /\ best_file_loss = 0 /\ epoch_steps = 0

NextLoader == GetTorchDataloader \/ LoaderYield \/ LoaderStop

SpecLoader == InitLoader /\ [][NextLoader]_vars

(* ---------------------------------------------------------------------- *)
(* train_epoch, eval_epoch and main                                        *)
(* ---------------------------------------------------------------------- *)
(* the loss of a batch is a value of the external models; the training loss
   is only summed and logged, one value stands for it *)
TrainLossValues == {1}

(* the evaluation loss of a batch: small values, or one at the initial
   threshold of best_eval_loss *)
EvalLossValues == 1..MaxEvalLoss \cup {InitBestEvalLoss}

ZeroGrad_keep(g) == g

(* line 62: optimizer.zero_grad() *)
ZeroGrad(g) == {}

(* line 65: loss.backward() adds the gradient of the batch the loss was
   computed on *)
Backward(g, lb) == g \cup {lb}

(* ScheduledOptim.step_and_update_lr (modules.optim): the step counter is
   advanced, the learning rate of that step is set, the base optimizer steps *)
StepAndUpdateLr(opt) ==
    [n_steps |-> opt.n_steps + 1, lr_step |-> opt.n_steps + 1,
     adam_steps |-> opt.adam_steps + 1]

(* the parameter update of one optimizer step taken in epoch e *)
ApplyStep(w, e) == Append(w, e)

Improves_orEqual(e, best) == e <= best

(* line 224 *)
Improves(e, best) == e < best

(* lines 216-221, 227-232 *)
States(w, opt, epoch) ==
    [exists |-> TRUE, context_state |-> w, ar_model_state |-> w,
     optimizer |-> opt.adam_steps, epoch |-> epoch]

(* line 205 *)
ResumeEpoch(checkpoint) == checkpoint.epoch

(* line 206 *)
ResumeSteps(se) == StepsPerEpoch * se

(* line 215 *)
IsPeriodic(e) == (e + 1) % SavePeriod = 0

(* lines 115-199: a new process builds the models, the optimizer, the loaders
   and the writer *)
MainSetup ==
    /\ pc \in {"idle", "exit", "failed"}
    /\ run < MaxRuns
    /\ run' = run + 1
    /\ num_epochs' \in 1..MaxEpochs
    /\ continue_training' \in BOOLEAN
    /\ weights' = <<>>
    /\ mode' = ModeOf("train")
    /\ grad' = {}
    /\ optimizer' = FreshOptimizer
    /\ writer' = <<>>
    /\ best_eval_loss' = InitBestEvalLoss
    /\ start_epoch' = 0
    /\ n' = 0 /\ b' = 0 /\ batch_loss' = 0 /\ loss_batch' = <<0, 0>>
    /\ total_loss' = 0 /\ train_loss' = 0 /\ eval_loss' = 0
    /\ epoch_steps' = 0
    /\ pc' = "resume"
    /\ UNCHANGED <<train_dataset, eval_dataset, best_model_pkl, model_pkl, best_file_loss>>
    /\ UNCHANGED <<lossVars, loaderVars>>

(* lines 200-206 with continue_training; torch.load raises when the file is
   missing and the process ends *)
MainResume ==
    /\ pc = "resume"
    /\ continue_training
    /\ IF best_model_pkl.exists
       THEN /\ weights' = best_model_pkl.ar_model_state
            /\ optimizer' = [n_steps |-> ResumeSteps(ResumeEpoch(best_model_pkl)),
                             lr_step |-> optimizer.lr_step,
                             adam_steps |-> best_model_pkl.optimizer]
            /\ start_epoch' = ResumeEpoch(best_model_pkl)
            /\ n' = ResumeEpoch(best_model_pkl)
            /\ pc' = "epoch_loop"
       ELSE /\ weights' = weights
            /\ optimizer' = optimizer
            /\ start_epoch' = start_epoch
            /\ n' = n
            /\ pc' = "failed"
    /\ UNCHANGED <<run, num_epochs, continue_training, train_dataset, eval_dataset,
                  mode, grad, b, batch_loss, loss_batch, total_loss, train_loss,
                  eval_loss, best_eval_loss, best_model_pkl, model_pkl, writer,
                  best_file_loss, epoch_steps>>
    /\ UNCHANGED <<lossVars, loaderVars>>

(* line 200 without continue_training *)
MainNoResume ==
    /\ pc = "resume"
    /\ ~continue_training
    /\ n' = start_epoch
    /\ pc' = "epoch_loop"
    /\ UNCHANGED <<run, num_epochs, continue_training, train_dataset, eval_dataset,
                  weights, mode, grad, optimizer, start_epoch, b, batch_loss,
                  loss_batch, total_loss, train_loss, eval_loss, best_eval_loss,
                  best_model_pkl, model_pkl, writer, best_file_loss, epoch_steps>>
    /\ UNCHANGED <<lossVars, loaderVars>>

(* line 208: the loop runs epoch n *)
EpochStart ==
    /\ pc = "epoch_loop"
    /\ n < num_epochs
    /\ pc' = "train_epoch"
    /\ UNCHANGED <<run, num_epochs, continue_training, train_dataset, eval_dataset,
                  weights, mode, grad, optimizer, n, start_epoch, b, batch_loss,
                  loss_batch, total_loss, train_loss, eval_loss, best_eval_loss,
                  best_model_pkl, model_pkl, writer, best_file_loss, epoch_steps>>
    /\ UNCHANGED <<lossVars, loaderVars>>

(* line 208: the range is exhausted, main returns *)
MainExit ==
    /\ pc = "epoch_loop"
    /\ n >= num_epochs
    /\ pc' = "exit"
    /\ UNCHANGED <<run, num_epochs, continue_training, train_dataset, eval_dataset,
                  weights, mode, grad, optimizer, n, start_epoch, b, batch_loss,
                  loss_batch, total_loss, train_loss, eval_loss, best_eval_loss,
                  best_model_pkl, model_pkl, writer, best_file_loss, epoch_steps>>
    /\ UNCHANGED <<lossVars, loaderVars>>

(* lines 57-60 *)
TrainBegin ==
    /\ pc = "train_epoch"
    /\ mode' = ModeOf("train")
    /\ total_loss' = 0
    /\ b' = 0
    /\ epoch_steps' = 0
    /\ pc' = "train_iter"
    /\ UNCHANGED <<run, num_epochs, continue_training, train_dataset, eval_dataset,
                  weights, grad, optimizer, n, start_epoch, batch_loss, loss_batch,
                  train_loss, eval_loss, best_eval_loss, best_model_pkl, model_pkl,
                  writer, best_file_loss>>
    /\ UNCHANGED <<lossVars, loaderVars>>

(* line 61: the next batch *)
TrainFetch ==
    /\ pc = "train_iter"
    /\ b < train_dataset
    /\ b' = b + 1
    /\ pc' = "zero_grad"
    /\ UNCHANGED <<run, num_epochs, continue_training, train_dataset, eval_dataset,
                  weights, mode, grad, optimizer, n, start_epoch, batch_loss,
                  loss_batch, total_loss, train_loss, eval_loss, best_eval_loss,
                  best_model_pkl, model_pkl, writer, best_file_loss, epoch_steps>>
    /\ UNCHANGED <<lossVars, loaderVars>>

(* line 62 *)
TrainZeroGrad ==
    /\ pc = "zero_grad"
    /\ grad' = ZeroGrad(grad)
    /\ pc' = "forward"
    /\ UNCHANGED <<run, num_epochs, continue_training, train_dataset, eval_dataset,
                  weights, mode, optimizer, n, start_epoch, b, batch_loss, loss_batch,
                  total_loss, train_loss, eval_loss, best_eval_loss, best_model_pkl,
                  model_pkl, writer, best_file_loss, epoch_steps>>
    /\ UNCHANGED <<lossVars, loaderVars>>

(* lines 63-64 *)
TrainForward ==
    /\ pc = "forward"
    /\ batch_loss' \in TrainLossValues
    /\ loss_batch' = <<n, b>>
    /\ pc' = "backward"
    /\ UNCHANGED <<run, num_epochs, continue_training, train_dataset, eval_dataset,
                  weights, mode, grad, optimizer, n, start_epoch, b, total_loss,
                  train_loss, eval_loss, best_eval_loss, best_model_pkl, model_pkl,
                  writer, best_file_loss, epoch_steps>>
    /\ UNCHANGED <<lossVars, loaderVars>>

(* line 65 *)
TrainBackward ==
    /\ pc = "backward"
    /\ grad' = Backward(grad, loss_batch)
    /\ pc' = "step"
    /\ UNCHANGED <<run, num_epochs, continue_training, train_dataset, eval_dataset,
                  weights, mode, optimizer, n, start_epoch, b, batch_loss, loss_batch,
                  total_loss, train_loss, eval_loss, best_eval_loss, best_model_pkl,
                  model_pkl, writer, best_file_loss, epoch_steps>>
    /\ UNCHANGED <<lossVars, loaderVars>>

(* line 66 *)
TrainStep ==
    /\ pc = "step"
    /\ optimizer' = StepAndUpdateLr(optimizer)
    /\ weights' = ApplyStep(weights, n)
    /\ epoch_steps' = epoch_steps + 1
    /\ pc' = "accumulate"
    /\ UNCHANGED <<run, num_epochs, continue_training, train_dataset, eval_dataset,
                  mode, grad, n, start_epoch, b, batch_loss, loss_batch, total_loss,
                  train_loss, eval_loss, best_eval_loss, best_model_pkl, model_pkl,
                  writer, best_file_loss>>
    /\ UNCHANGED <<lossVars, loaderVars>>

(* line 67 *)
TrainAccumulate ==
    /\ pc = "accumulate"
    /\ total_loss' = total_loss + batch_loss
    /\ pc' = "train_iter"
    /\ UNCHANGED <<run, num_epochs, continue_training, train_dataset, eval_dataset,
                  weights, mode, grad, optimizer, n, start_epoch, b, batch_loss,
                  loss_batch, train_loss, eval_loss, best_eval_loss, best_model_pkl,
                  model_pkl, writer, best_file_loss, epoch_steps>>
    /\ UNCHANGED <<lossVars, loaderVars>>

(* lines 69, 211 *)
TrainReturn ==
    /\ pc = "train_iter"
    /\ b = train_dataset
    /\ train_loss' = total_loss
    /\ pc' = "eval_epoch"
    /\ UNCHANGED <<run, num_epochs, continue_training, train_dataset, eval_dataset,
                  weights, mode, grad, optimizer, n, start_epoch, b, batch_loss,
                  loss_batch, total_loss, eval_loss, best_eval_loss, best_model_pkl,
                  model_pkl, writer, best_file_loss, epoch_steps>>
    /\ UNCHANGED <<lossVars, loaderVars>>

(* lines 80-83 *)
EvalBegin ==
    /\ pc = "eval_epoch"
    /\ mode' = ModeOf("eval")
    /\ total_loss' = 0
    /\ b' = 0
    /\ pc' = "eval_iter"
    /\ UNCHANGED <<run, num_epochs, continue_training, train_dataset, eval_dataset,
                  weights, grad, optimizer, n, start_epoch, batch_loss, loss_batch,
                  train_loss, eval_loss, best_eval_loss, best_model_pkl, model_pkl,
                  writer, best_file_loss, epoch_steps>>
    /\ UNCHANGED <<lossVars, loaderVars>>

(* line 84: the next batch *)
EvalFetch ==
    /\ pc = "eval_iter"
    /\ b < eval_dataset
    /\ b' = b + 1
    /\ pc' = "eval_forward"
    /\ UNCHANGED <<run, num_epochs, continue_training, train_dataset, eval_dataset,
                  weights, mode, grad, optimizer, n, start_epoch, batch_loss,
                  loss_batch, total_loss, train_loss, eval_loss, best_eval_loss,
                  best_model_pkl, model_pkl, writer, best_file_loss, epoch_steps>>
    /\ UNCHANGED <<lossVars, loaderVars>>

(* lines 85-87, under torch.no_grad() *)
EvalForward ==
    /\ pc = "eval_forward"
    /\ batch_loss' \in EvalLossValues
    /\ loss_batch' = <<n, b>>
    /\ pc' = "eval_accumulate"
    /\ UNCHANGED <<run, num_epochs, continue_training, train_dataset, eval_dataset,
                  weights, mode, grad, optimizer, n, start_epoch, b, total_loss,
                  train_loss, eval_loss, best_eval_loss, best_model_pkl, model_pkl,
                  writer, best_file_loss, epoch_steps>>
    /\ UNCHANGED <<lossVars, loaderVars>>

(* line 88 *)
EvalAccumulate ==
    /\ pc = "eval_accumulate"
    /\ total_loss' = total_loss + batch_loss
    /\ pc' = "eval_iter"
    /\ UNCHANGED <<run, num_epochs, continue_training, train_dataset, eval_dataset,
                  weights, mode, grad, optimizer, n, start_epoch, b, batch_loss,
                  loss_batch, train_loss, eval_loss, best_eval_loss, best_model_pkl,
                  model_pkl, writer, best_file_loss, epoch_steps>>
    /\ UNCHANGED <<lossVars, loaderVars>>

(* lines 89, 212 *)
EvalReturn ==
    /\ pc = "eval_iter"
    /\ b = eval_dataset
    /\ eval_loss' = total_loss
    /\ pc' = "epoch_end"
    /\ UNCHANGED <<run, num_epochs, continue_training, train_dataset, eval_dataset,
                  weights, mode, grad, optimizer, n, start_epoch, b, batch_loss,
                  loss_batch, total_loss, train_loss, best_eval_loss, best_model_pkl,
                  model_pkl, writer, best_file_loss, epoch_steps>>
    /\ UNCHANGED <<lossVars, loaderVars>>

(* lines 215-236: the periodic and the best-loss checkpoint, the scalars *)
EpochEnd ==
    /\ pc = "epoch_end"
    /\ model_pkl' = IF IsPeriodic(n)
                    THEN {f \in model_pkl : f.name # n}
                             \cup {[name |-> n, states |-> States(weights, optimizer, n)]}
                    ELSE model_pkl
    /\ IF Improves(eval_loss, best_eval_loss)
       THEN /\ best_eval_loss' = eval_loss
            /\ best_model_pkl' = States(weights, optimizer, n)
            /\ best_file_loss' = eval_loss
       ELSE /\ best_eval_loss' = best_eval_loss
            /\ best_model_pkl' = best_model_pkl
            /\ best_file_loss' = best_file_loss
    /\ writer' = Append(writer, [n |-> n, train |-> train_loss, test |-> eval_loss])
    /\ n' = n + 1
    /\ pc' = "epoch_loop"
    /\ UNCHANGED <<run, num_epochs, continue_training, train_dataset, eval_dataset,
                  weights, mode, grad, optimizer, start_epoch, b, batch_loss,
                  loss_batch, total_loss, train_loss, eval_loss, epoch_steps>>
    /\ UNCHANGED <<lossVars, loaderVars>>

Init ==
    /\ pc = "idle" /\ run = 0
    /\ train_dataset \in 1..MaxTrainBatches
    /\ eval_dataset \in 1..MaxEvalBatches
    /\ num_epochs = 0 /\ continue_training = FALSE
    /\ weights = <<>> /\ mode = ModeOf("train") /\ grad = {}
    /\ optimizer = FreshOptimizer
    /\ n = 0 /\ start_epoch = 0 /\ b = 0
    /\ batch_loss = 0 /\ loss_batch = <<0, 0>> /\ total_loss = 0
    /\ train_loss = 0 /\ eval_loss = 0 /\ best_eval_loss = 0
    /\ best_model_pkl = NoFile /\ model_pkl = {} /\ writer = <<>>
    /\ best_file_loss = 0 /\ epoch_steps = 0
    /\ batch_data = [n |-> 0, length |-> <<>>, target_seq_id |-> <<>>]
    /\ batch_size = 0
    /\ lpc = "idle"
    /\ i = 0 /\ loss = 0 /\ offset = 0 /\ total_length = 0
    /\ label = <<>> /\ mask = <<>> /\ target_value_index = <<>> /\ scored = <<>>
    /\ ret = [num |-> 0, den |-> 0]
    /\ dataset = [indexDictForest |-> <<>>, indexDictMaze |-> <<>>]
    /\ loader_batch_size = 0
    /\ dpc = "idle"
    /\ data_index = <<>> /\ batch_sampler_data = <<>>
    /\ cursor = 0 /\ visited = <<>>

Next ==
    \/ MainSetup \/ MainResume \/ MainNoResume \/ EpochStart \/ MainExit
    \/ TrainBegin \/ TrainFetch \/ TrainZeroGrad \/ TrainForward \/ TrainBackward
    \/ TrainStep \/ TrainAccumulate \/ TrainReturn
    \/ EvalBegin \/ EvalFetch \/ EvalForward \/ EvalAccumulate \/ EvalReturn
    \/ EpochEnd

Spec == Init /\ [][Next]_vars

(* ---------------------------------------------------------------------- *)
(* Properties of calculate_loss (checked under SpecLoss)                   *)
(* ---------------------------------------------------------------------- *)
(* the length of the trajectory handled by the last iteration *)
LastLength == batch_data.length[i]

IterDone == lpc \in {"loop", "done"} /\ i >= 1

(* C1: for every trajectory length L >= 2 and batch_size B >= 1, with
   offset = max(floor(L/B), 1) and total_length = min(B*offset, L-1), the
   number of labels (target positions 0, offset, 2*offset, ... below
   total_length) is at least 1 and at most B. *)
C1_SupervisionCount ==
    (IterDone /\ LastLength >= 2) =>
        LET off == Max(LastLength \div batch_size, 1)
            tl == Min(batch_size * off, LastLength - 1)
        IN  /\ offset = off
            /\ total_length = tl
            /\ Len(label) = Cardinality({p \in 0..tl - 1 : p % off = 0})
            /\ Len(label) >= 1
            /\ Len(label) <= batch_size

C1_Witness ==
    /\ IterDone /\ LastLength >= 2
    /\ batch_size >= 2 /\ LastLength > batch_size + 1
    /\ Len(label) = batch_size

(* C2: consecutive supervision positions differ by exactly offset and the
   last supervision position lies fewer than offset positions before the
   last target position L-2, so that no run of offset or more target
   positions at the end of the trajectory is left without a supervision
   point. *)
C2_WholeTrajectoryCovered ==
    (IterDone /\ LastLength >= 2) =>
        /\ \A k \in 1..Len(scored) - 1 : scored[k + 1].pos - scored[k].pos = offset
        /\ (LastLength - 2) - (Len(label) - 1) * offset < offset

(* C6: with a context output of 2 tokens the mask has one row per label; row
   k shows exactly the model-input positions 0 .. k*offset+2; the scored
   position target_value_index[k] = k*offset+2 is the last visible position
   of the row and a valid index into the model input of length
   total_length+2; it is scored against the label target_seq_id[k*offset]. *)
C6_MaskAndScoredPosition ==
    (IterDone /\ LastLength >= 2) =>
        /\ Len(mask) = Len(label)
        /\ Len(scored) = Len(label)
        /\ \A k \in 0..Len(label) - 1 :
              /\ Len(mask[k + 1]) = total_length + 2
              /\ {c \in 0..total_length + 1 : mask[k + 1][c + 1] = 1} = 0..k * offset + 2
              /\ target_value_index[k + 1] = k * offset + 2
              /\ target_value_index[k + 1] < total_length + 2
              /\ scored[k + 1] = [row |-> k, pos |-> k * offset + 2,
                                  key |-> batch_data.target_seq_id[i][k * offset + 1]]

C6_Witness ==
    /\ IterDone /\ LastLength >= 2
    /\ offset >= 2 /\ Len(label) >= 2
    /\ scored[2].pos = offset + 2

(* the supervision points of trajectory t as section 4.1 describes them, each with
   the negative log-likelihood of its true key *)
PointsOf(t) ==
    LET L == batch_data.length[t]
        off == Max(L \div batch_size, 1)
        tl == Min(batch_size * off, L - 1)
    IN  [k \in 1..Cardinality({p \in 0..tl - 1 : p % off = 0}) |->
            NLL(t - 1, k - 1, (k - 1) * off + 2, batch_data.target_seq_id[t][(k - 1) * off + 1])]

(* C3: the returned value is the sum over all n trajectories and all their
   supervision points of the negative log-likelihood of the true key,
   divided by n, whatever the number of points of each trajectory. *)
C3_LossIsSumOverN ==
    lpc = "done" =>
        /\ ret.num = SumSeq([t \in 1..batch_data.n |-> SumSeq(PointsOf(t))])
        /\ ret.den = batch_data.n

C3_Witness ==
    /\ lpc = "done"
    /\ batch_data.n = 2
    /\ Len(PointsOf(1)) # Len(PointsOf(2))
    /\ ret.num > 0 /\ ret.den = 2

(* ---------------------------------------------------------------------- *)
(* Properties of get_torch_dataloader (checked under SpecLoader)           *)
(* ---------------------------------------------------------------------- *)
Occurrences(x, s) == Cardinality({k \in 1..Len(s) : s[k] = x})

(* C8: every index of the dataset's index list appears in exactly one batch
   of the batch sampler, no batch holds more than batch_size indices, and
   one pass over the loader visits every trajectory exactly once. *)
C8_EveryIndexInOneBatch ==
    /\ dpc \in {"ready", "exhausted"} =>
          /\ \A k \in 1..Len(data_index) :
                Cardinality({c \in 1..Len(batch_sampler_data) :
                    Occurrences(data_index[k], batch_sampler_data[c]) = 1}) = 1
          /\ \A c \in 1..Len(batch_sampler_data) :
                Len(batch_sampler_data[c]) <= loader_batch_size
    /\ dpc = "exhausted" =>
          \A k \in 1..Len(data_index) : Occurrences(data_index[k], visited) = 1

(* ---------------------------------------------------------------------- *)
(* Properties of main (checked under Spec)                                 *)
(* ---------------------------------------------------------------------- *)
(* the parameters after epochs 0 .. e of a run that started from new models *)
WeightsAfter(e) == [j \in 1..train_dataset * (e + 1) |-> (j - 1) \div train_dataset]

LoggedBelowThreshold == \E k \in 1..Len(writer) : writer[k].test < InitBestEvalLoss

(* the first logged epoch whose evaluation loss is the least logged one *)
EarliestBest ==
    LET k == CHOOSE k \in 1..Len(writer) :
                /\ \A j \in 1..Len(writer) : writer[k].test <= writer[j].test
                /\ \A j \in 1..k - 1 : writer[j].test # writer[k].test
    IN  writer[k].n

C4_FileHoldsEarliestBest ==
    (~continue_training /\ LoggedBelowThreshold) =>
        best_model_pkl = [exists |-> TRUE,
                          context_state |-> WeightsAfter(EarliestBest),
                          ar_model_state |-> WeightsAfter(EarliestBest),
                          optimizer |-> train_dataset * (EarliestBest + 1),
                          epoch |-> EarliestBest]

(* C4: in a run started without continue_training, after every completed
   epoch, if some epoch evaluated so far had an evaluation loss below the
   initial threshold, best_model.pkl holds the model/optimizer state and the
   epoch index of the earliest epoch with the least evaluation loss so far;
   best_eval_loss never increases during the run. *)
C4_BestCheckpoint ==
    /\ []C4_FileHoldsEarliestBest
    /\ [][(run' = run /\ ~continue_training) => best_eval_loss' <= best_eval_loss]_vars

C4_Witness ==
    /\ ~continue_training
    /\ Len(writer) = 3
    /\ writer[2].test < writer[1].test
    /\ writer[3].test = writer[2].test
    /\ writer[1].test < InitBestEvalLoss
    /\ best_model_pkl.exists /\ best_model_pkl.epoch = 1

(* C5: after a continue_training resume the first epoch run is the one
   following the last epoch whose training produced the weights of
   best_model.pkl, no epoch index is trained on weights that already include
   it, and the final weights have had num_epochs training epochs. *)
C5_ResumeAfterCheckpointEpoch ==
    continue_training =>
        /\ (pc = "epoch_loop" /\ writer = <<>>) => start_epoch = best_model_pkl.epoch + 1
        /\ pc = "train_epoch" => \A j \in 1..Len(weights) : weights[j] # n
        /\ pc = "exit" => Len(weights) = train_dataset * num_epochs

(* C9: across the runs on one log directory a write to best_model.pkl always
   stores a state whose evaluation loss is strictly lower than that of the
   state it replaces. *)
C9_BestFileLossDecreases ==
    [][(best_model_pkl' # best_model_pkl /\ best_model_pkl.exists)
          => best_file_loss' < best_file_loss]_vars

(* C10: after a continue_training resume optimizer.n_steps equals the number
   of optimizer steps applied to produce the loaded weights. *)
C10_ResumeStepCounter ==
    (continue_training /\ pc = "epoch_loop" /\ writer = <<>>) =>
        optimizer.n_steps = Len(weights)

EvalPcs == {"eval_epoch", "eval_iter", "eval_forward", "eval_accumulate"}

C7_StepState ==
    /\ pc = "step" =>
          /\ grad = {<<n, b>>}
          /\ loss_batch = <<n, b>>
          /\ mode = ModeOf("train")
    /\ pc = "eval_epoch" => epoch_steps = train_dataset
    /\ pc = "eval_forward" => mode = ModeOf("eval")

C7_StepAction ==
    /\ pc \in EvalPcs => (weights' = weights /\ optimizer' = optimizer /\ grad' = grad)
    /\ (run' = run /\ pc # "resume" /\ optimizer' # optimizer) =>
          /\ pc = "step"
          /\ optimizer'.n_steps = optimizer.n_steps + 1
          /\ optimizer'.adam_steps = optimizer.adam_steps + 1
          /\ Len(weights') = Len(weights) + 1

(* C7: train_epoch does, for every batch, zero_grad, loss computation,
   backward and exactly one step_and_update_lr, so the optimizer is stepped
   exactly N times per training epoch and only on the gradient of the current
   batch; eval_epoch leaves parameters, gradients and optimizer unchanged;
   every optimizer step happens in train mode and every evaluation loss is
   computed in eval mode. *)
C7_TrainEvalDiscipline == []C7_StepState /\ [][C7_StepAction]_vars

C7_Witness ==
    /\ pc = "epoch_end"
    /\ n >= 1
    /\ train_dataset >= 2
    /\ Len(weights) >= 2 * train_dataset
    /\ mode = ModeOf("eval")

====
